---- MODULE Spec2Model ----
(***************************************************************************)
(* LiveTrader (src/unnamed/part_000): one trader instance, its candle      *)
(* window, its streaming connection with reconnect backoff, and the        *)
(* handling of stream messages.                                            *)
(*                                                                         *)
(* A candle is represented by its openTime: the seven parallel arrays of   *)
(* this.candles are pushed and shifted in lockstep (lines 461-477), so one *)
(* sequence of openTimes stands for all of them.                           *)
(*                                                                         *)
(* Sockets are those of the ws package: terminate() of a socket that is    *)
(* connecting or open destroys it and its close event follows in a later   *)
(* tick (for an aborted handshake together with an error event); a closed  *)
(* socket emits nothing more. Each handler runs to its end, or to its      *)
(* first await, in one step.                                               *)
(*                                                                         *)
(* The detections of processCandle (lines 515-712) write neither the       *)
(* window, nor lastCandleTime, nor a variable of the connection. Spec and  *)
(* ConnSpec take processCandle up to the replacement of this.state (lines  *)
(* 490-507); TradeSpec takes all of it, await by await, on a stream that   *)
(* is open and delivers its candles in order; ExitSpec takes the exit      *)
(* reason and profit/loss of lines 517-607 alone.                          *)
(***************************************************************************)
EXTENDS Integers, Sequences

\* ------------------------------------------------------------------ bounds
\* openTimes of the candles the exchange can deliver: 1..MaxTime
MaxTime == 3
\* the number of candles a snapshot fetch asks for (1000 in the source,
\* lines 311 and 422), scaled down
limit == 2
\* connect-timeout timers of earlier attempts that may be pending at once
MaxStaleTimers == 1

\* prices of the exit resolution: 1..MaxPrice
MaxPrice == 5
\* candles the stream delivers in TradeSpec
MaxCandles == 2

\* ------------------------------------------------------- program constants
\* this.maxReconnectAttempts, line 274
maxReconnectAttempts == 10
\* the initial and reset value of this.reconnectDelay, lines 275 and 366
initialReconnectDelay == 1000
\* the cap of the backoff delay, line 412
maxBackoffDelay == 30000
\* config.rewardMultiple, 1.5 by default (line 39), as a fraction
rewardMultiple == <<3, 2>>
\* config.leverageAmount, 2.0 by default (line 45)
leverageAmount == 2

VARIABLES
  candles,            \* this.candles, as the sequence of openTimes
  lastCandleTime,     \* this.lastCandleTime
  state,              \* this.state, the algorithm state
  socket,             \* this.socket: "null" or the readyState of the socket
  orphans,            \* sockets this.socket no longer refers to, close event pending
  isConnected,        \* this.isConnected
  reconnectAttempts,  \* this.reconnectAttempts
  reconnectDelay,     \* this.reconnectDelay
  reconnectTimers,    \* pending setTimeout of attemptReconnect: their delays
  fetching,           \* reconnect callbacks awaiting fetchBinanceData
  attemptTimer,       \* the 10 s timer of the attempt that made this.socket is pending
  staleTimers,        \* pending 10 s timers of earlier attempts
  initPc,             \* where initialize() stands
  engineCalls,        \* history: calls of jAlgo made by the last handler run
  accepted,           \* history: openTimes of the closed ticks pushed to the window
  due,                \* history: the last handler run was given a closed tick
                      \* newer than the last candle of the window
  stopped,            \* history: stop() was called once a connection had been started
  attemptsSinceOpen,  \* history: reconnects scheduled since the last 'open' (or start)
  activeLongTrade,    \* this.activeLongTrade
  activeShortTrade,   \* this.activeShortTrade
  tradeIdCounter,     \* this.tradeIdCounter
  lastStatsUpdate,    \* this.lastStatsUpdate: 0 while unset
  tasks,              \* the runs of processCandle that stand at an await
  threw,              \* history: jAlgo threw in the last handler run
  sunk,               \* history: what a run with no other run beside it has
                      \* handed to the sink
  quote,              \* the inputs of the last exit resolution
  exitEvent           \* the Exit event the last exit resolution made

winVars == <<candles, lastCandleTime, state, accepted>>
timerVars == <<reconnectTimers, fetching, attemptTimer, staleTimers>>
connVars == <<socket, orphans, isConnected, reconnectAttempts, reconnectDelay,
              attemptsSinceOpen>>
tradeVars == <<activeLongTrade, activeShortTrade, tradeIdCounter,
               lastStatsUpdate, tasks, threw, sunk>>
exitVars == <<quote, exitEvent>>
vars == <<candles, lastCandleTime, state, socket, orphans, isConnected,
          reconnectAttempts, reconnectDelay, reconnectTimers, fetching,
          attemptTimer, staleTimers, initPc, engineCalls, accepted, due,
          stopped, attemptsSinceOpen, activeLongTrade, activeShortTrade,
          tradeIdCounter, lastStatsUpdate, tasks, threw, sunk, quote,
          exitEvent>>

\* ----------------------------------------------------------------- helpers
Min(a, b) == IF a <= b THEN a ELSE b

Last(s) == s[Len(s)]

OpenTimes == 1..MaxTime

StrictlyIncreasing(s) == \A i \in 1..(Len(s) - 1) : s[i] < s[i + 1]

\* what fetchBinanceData resolves to: at most `limit` candles, ascending by time
Snapshots ==
  {s \in UNION {[1..n -> OpenTimes] : n \in 0..limit} : StrictlyIncreasing(s)}

\* the algorithm state before the first evaluation (this.state = null)
NullState == [isNull |-> TRUE, inLongTrade |-> FALSE, inShortTrade |-> FALSE]

AlgoStates == [isNull : {FALSE}, inLongTrade : BOOLEAN, inShortTrade : BOOLEAN]

\* what a call of jAlgo can do: throw, or return a state
EngineResults == [ok : BOOLEAN, state : AlgoStates]

\* the messages a socket can deliver: unparsable text, a JSON event without
\* a kline payload, a kline event with openTime t and closed flag x, or
\* ("malformed") such an event whose price fields are not numbers
Messages ==
  [kind : {"garbage", "other"}, t : {0}, x : {FALSE}]
    \cup [kind : {"kline", "malformed"}, t : OpenTimes, x : BOOLEAN]

\* event.k is there (line 443); nothing else of the payload is tested
HasPayload(msg) == msg.kind \in {"kline", "malformed"}

\* ------------------------------------------------------------ candle window
\* (mutant) the candle is pushed and nothing is shifted out
AppendCandle_NoShift(w, t) == Append(w, t)

\* push the candle, then shift the oldest one out
AppendCandle(w, t) == Tail(Append(w, t))

\* ------------------------------------------------------------------ backoff
\* (mutant) the delay is not capped
BackoffDelay_NoCap(base, k) == base * 2 ^ (k - 1)

BackoffDelay(base, k) == Min(maxBackoffDelay, base * 2 ^ (k - 1))

\* (mutant) the guard lets one more attempt through
BudgetSpent_OffByOne(attempts) == attempts > maxReconnectAttempts

\* the guard of attemptReconnect: the attempt budget is used up
BudgetSpent(attempts) == attempts >= maxReconnectAttempts

\* the value the 'open' handler gives this.reconnectAttempts
AttemptsAfterOpen(attempts) == 0

\* ------------------------------------------------------------- trade slots
\* an empty ActiveTrade slot (null)
NoTrade == [id |-> 0, entryTime |-> 0, stopLevel |-> 0]

\* no log of events is kept
NoLog == [of |-> 0, events |-> <<>>]

\* ---------------------------------------------------------- exit resolution
\* before any exit was resolved
NoQuote ==
  [position |-> "none", entryPrice |-> 0, targetLevel |-> 0, stopReference |-> 0,
   riskAmount |-> 0, high |-> 0, low |-> 0, close |-> 0, signal |-> "none",
   useLeverage |-> FALSE]

NoEvent == [position |-> "none", reason |-> "none", profitLoss |-> <<0, 1>>]

\* Amounts are fractions <<numerator, denominator>> with a positive
\* denominator; the source computes them in floating point.
Abs(x) == IF x < 0 THEN -x ELSE x

\* x / y of two numbers, y not 0
Rat(x, y) == IF y < 0 THEN <<-x, -y>> ELSE <<x, y>>

RatMul(a, b) == <<a[1] * b[1], a[2] * b[2]>>

RatNeg(a) == <<-a[1], a[2]>>

RatEq(a, b) == a[1] * b[2] = b[1] * a[2]

\* Math.min
RatMin(a, b) == IF a[1] * b[2] <= b[1] * a[2] THEN a ELSE b

Prices == 1..MaxPrice

RiskAmounts == {10, 20}

Positions == {"long", "short"}

\* result.signal: null, or a signal with position long or short
Signals == {"none", "long", "short"}

\* the candle just pushed, as the exchange makes candles: low <= close <= high
Candles ==
  {c \in [high : Prices, low : Prices, close : Prices] :
     c.low <= c.close /\ c.close <= c.high}

\* what the exit resolution of the long side reads: the prior state of a
\* long position (stop below entry below target), the candle, the new
\* signal and the leverage switch of the configuration
LongQuotes ==
  {q \in [position : {"long"}, entryPrice : Prices, targetLevel : Prices,
          stopReference : Prices, riskAmount : RiskAmounts, high : Prices,
          low : Prices, close : Prices, signal : Signals, useLeverage : BOOLEAN] :
     /\ q.stopReference < q.entryPrice /\ q.entryPrice < q.targetLevel
     /\ q.low <= q.close /\ q.close <= q.high}

\* the same of a short position (target below entry below stop)
ShortQuotes ==
  {q \in [position : {"short"}, entryPrice : Prices, targetLevel : Prices,
          stopReference : Prices, riskAmount : RiskAmounts, high : Prices,
          low : Prices, close : Prices, signal : Signals, useLeverage : BOOLEAN] :
     /\ q.targetLevel < q.entryPrice /\ q.entryPrice < q.stopReference
     /\ q.low <= q.close /\ q.close <= q.high}

\* config.useLeverage ? config.leverageAmount : 1
LeverageFactor(q) == IF q.useLeverage THEN leverageAmount ELSE 1

\* prevState.riskAmount * rewardMultiple * leverage factor
FullReward(q) == RatMul(<<q.riskAmount * LeverageFactor(q), 1>>, rewardMultiple)

\* (mutant) the loss fraction is not capped at 1
LongPartial_NoCap(q) ==
  LET longPL == q.close - q.entryPrice
      longRisk == q.entryPrice - q.stopReference
  IN  IF longPL > 0
        THEN LET targetDistance == q.targetLevel - q.entryPrice
                 percentageToTarget == RatMin(Rat(longPL, targetDistance), <<1, 1>>)
             IN  RatMul(percentageToTarget, FullReward(q))
        ELSE LET percentageLoss == Rat(Abs(longPL), Abs(longRisk))
             IN  RatNeg(RatMul(percentageLoss,
                               <<q.riskAmount * LeverageFactor(q), 1>>))

\* the partial profit or loss of a long position closed by a short signal
LongPartial(q) ==
  LET longPL == q.close - q.entryPrice
      longRisk == q.entryPrice - q.stopReference
  IN  IF longPL > 0
        THEN LET targetDistance == q.targetLevel - q.entryPrice
                 percentageToTarget == RatMin(Rat(longPL, targetDistance), <<1, 1>>)
             IN  RatMul(percentageToTarget, FullReward(q))
        ELSE LET percentageLoss ==
                   RatMin(Rat(Abs(longPL), Abs(longRisk)), <<1, 1>>)
             IN  RatNeg(RatMul(percentageLoss,
                               <<q.riskAmount * LeverageFactor(q), 1>>))

\* the partial profit or loss of a short position closed by a long signal
ShortPartial(q) ==
  LET shortPL == q.entryPrice - q.close
      shortRisk == q.stopReference - q.entryPrice
  IN  IF shortPL > 0
        THEN LET targetDistance == q.entryPrice - q.targetLevel
                 percentageToTarget == RatMin(Rat(shortPL, targetDistance), <<1, 1>>)
             IN  RatMul(percentageToTarget, FullReward(q))
        ELSE LET percentageLoss ==
                   RatMin(Rat(Abs(shortPL), Abs(shortRisk)), <<1, 1>>)
             IN  RatNeg(RatMul(percentageLoss,
                               <<q.riskAmount * LeverageFactor(q), 1>>))

\* (mutant) the new signal is looked at before the target
LongExit_SignalFirst(q) ==
  IF q.signal = "short"
    THEN [position |-> "long", reason |-> "New Signal (Short)",
          profitLoss |-> LongPartial(q)]
    ELSE IF q.high >= q.targetLevel
           THEN [position |-> "long", reason |-> "Target Hit",
                 profitLoss |-> FullReward(q)]
           ELSE [position |-> "long", reason |-> "Unknown", profitLoss |-> <<0, 1>>]

\* exitReason and profitLoss of a long position that was closed
LongExit(q) ==
  IF q.high >= q.targetLevel
    THEN [position |-> "long", reason |-> "Target Hit",
          profitLoss |-> FullReward(q)]
    ELSE IF q.signal = "short"
           THEN [position |-> "long", reason |-> "New Signal (Short)",
                 profitLoss |-> LongPartial(q)]
           ELSE [position |-> "long", reason |-> "Unknown", profitLoss |-> <<0, 1>>]

\* exitReason and profitLoss of a short position that was closed
ShortExit(q) ==
  IF q.low <= q.targetLevel
    THEN [position |-> "short", reason |-> "Target Hit",
          profitLoss |-> FullReward(q)]
    ELSE IF q.signal = "long"
           THEN [position |-> "short", reason |-> "New Signal (Long)",
                 profitLoss |-> ShortPartial(q)]
           ELSE [position |-> "short", reason |-> "Unknown", profitLoss |-> <<0, 1>>]

\* -------------------------------------------------------------------- Init
Init ==
  /\ candles = <<>>
  /\ lastCandleTime = 0
  /\ state = NullState
  /\ socket = "null"
  /\ orphans = 0
  /\ isConnected = FALSE
  /\ reconnectAttempts = 0
  /\ reconnectDelay = initialReconnectDelay
  /\ reconnectTimers = <<>>
  /\ fetching = 0
  /\ attemptTimer = FALSE
  /\ staleTimers = 0
  /\ initPc = "new"
  /\ engineCalls = 0
  /\ accepted = {}
  /\ due = FALSE
  /\ stopped = FALSE
  /\ attemptsSinceOpen = 0
  /\ activeLongTrade = NoTrade
  /\ activeShortTrade = NoTrade
  /\ tradeIdCounter = 0
  /\ lastStatsUpdate = 0
  /\ tasks = <<>>
  /\ threw = FALSE
  /\ sunk = NoLog
  /\ quote = NoQuote
  /\ exitEvent = NoEvent

\* --------------------------------------------------------- connectWebSocket
\* socket.terminate() of ws: a socket that is connecting or open (or already
\* closing) gets its close event later; a closed one is left alone
Live(s) == s \in {"connecting", "open", "closing"}

\* the promise of the first connectWebSocket, awaited by initialize(), is
\* resolved: initialize() goes on to send the stats panel
ResolveConnect(pc) == IF pc = "connect" THEN "stats" ELSE pc

\* the synchronous part of connectWebSocket: the old socket is terminated, a
\* new one is created and its 10 s timer is armed
connectWebSocket ==
  /\ staleTimers + (IF attemptTimer THEN 1 ELSE 0) <= MaxStaleTimers
  /\ orphans' = orphans + (IF Live(socket) THEN 1 ELSE 0)
  /\ socket' = "connecting"
  /\ staleTimers' = staleTimers + (IF attemptTimer THEN 1 ELSE 0)
  /\ attemptTimer' = TRUE

\* attemptReconnect, called by the close handler
attemptReconnect ==
  IF BudgetSpent(reconnectAttempts)
    THEN UNCHANGED <<reconnectAttempts, reconnectTimers, attemptsSinceOpen>>
    ELSE /\ reconnectAttempts' = reconnectAttempts + 1
         /\ reconnectTimers' =
              Append(reconnectTimers,
                     BackoffDelay(reconnectDelay, reconnectAttempts + 1))
         /\ attemptsSinceOpen' = attemptsSinceOpen + 1

\* ---------------------------------------------------------------- initialize
Initialize ==
  /\ UNCHANGED <<tradeVars, exitVars>>
  /\ initPc = "new"
  /\ initPc' = "fetch"
  /\ engineCalls' = 0
  /\ due' = FALSE
  /\ UNCHANGED <<winVars, connVars, timerVars, stopped>>

\* (mutant) the connection is opened although the fetch failed
InitFetchFail_Connects ==
  /\ UNCHANGED <<tradeVars, exitVars>>
  /\ initPc = "fetch"
  /\ initPc' = "false"
  /\ connectWebSocket
  /\ engineCalls' = 0
  /\ due' = FALSE
  /\ UNCHANGED <<winVars, isConnected, reconnectAttempts, reconnectDelay,
                 attemptsSinceOpen, reconnectTimers, fetching, stopped>>

\* fetchBinanceData throws (non-array response): initialize() returns false
InitFetchFail ==
  /\ UNCHANGED <<tradeVars, exitVars>>
  /\ initPc = "fetch"
  /\ initPc' = "false"
  /\ engineCalls' = 0
  /\ due' = FALSE
  /\ UNCHANGED <<winVars, connVars, timerVars, stopped>>

\* the snapshot arrives: the window is seeded, jAlgo is called with no prior
\* state and, unless it throws, the connection is opened
InitFetchOk ==
  /\ UNCHANGED <<tradeVars, exitVars>>
  /\ initPc = "fetch"
  /\ \E snap \in Snapshots, res \in EngineResults :
       /\ candles' = snap
       /\ engineCalls' = 1
       /\ due' = FALSE
       /\ IF res.ok
            THEN /\ state' = res.state
                 /\ connectWebSocket
                 /\ initPc' = "connect"
            ELSE /\ initPc' = "false"
                 /\ UNCHANGED <<state, socket, orphans, staleTimers, attemptTimer>>
  /\ UNCHANGED <<lastCandleTime, accepted, isConnected,
                 reconnectAttempts, reconnectDelay, attemptsSinceOpen,
                 reconnectTimers, fetching, stopped>>

\* the initial stats panel was sent (or failed, sendStatsPanel catches):
\* initialize() returns true
InitStatsDone ==
  /\ UNCHANGED <<tradeVars, exitVars>>
  /\ initPc = "stats"
  /\ initPc' = "true"
  /\ engineCalls' = 0
  /\ due' = FALSE
  /\ UNCHANGED <<winVars, connVars, timerVars, stopped>>

\* ------------------------------------------------------------ socket events
\* 'open'
SocketOpen ==
  /\ UNCHANGED <<tradeVars, exitVars>>
  /\ socket = "connecting"
  /\ socket' = "open"
  /\ isConnected' = TRUE
  /\ reconnectAttempts' = AttemptsAfterOpen(reconnectAttempts)
  /\ reconnectDelay' = initialReconnectDelay
  /\ attemptsSinceOpen' = 0
  /\ initPc' = ResolveConnect(initPc)
  /\ engineCalls' = 0
  /\ due' = FALSE
  /\ UNCHANGED <<winVars, orphans, timerVars, stopped>>

\* 'error': the handshake fails or the open connection breaks; ws emits the
\* close event afterwards
SocketError ==
  /\ UNCHANGED <<tradeVars, exitVars>>
  /\ socket \in {"connecting", "open"}
  /\ socket' = "closing"
  /\ isConnected' = FALSE
  /\ initPc' = ResolveConnect(initPc)
  /\ engineCalls' = 0
  /\ due' = FALSE
  /\ UNCHANGED <<winVars, orphans, reconnectAttempts, reconnectDelay,
                 attemptsSinceOpen, timerVars, stopped>>

\* 'close', of this.socket (closed by the peer, after an error, or after
\* terminate()) or of a socket this.socket no longer refers to. An aborted
\* handshake emits its error event in the same tick, which resolves the
\* promise initialize() may still await.
SocketClose ==
  /\ UNCHANGED <<tradeVars, exitVars>>
  /\ \/ /\ socket \in {"open", "closing"}
        /\ socket' = "closed"
        /\ UNCHANGED orphans
     \/ /\ orphans > 0
        /\ orphans' = orphans - 1
        /\ UNCHANGED socket
  /\ isConnected' = FALSE
  /\ attemptReconnect
  /\ initPc' = ResolveConnect(initPc)
  /\ engineCalls' = 0
  /\ due' = FALSE
  /\ UNCHANGED <<winVars, reconnectDelay, fetching, attemptTimer, staleTimers,
                 stopped>>

\* (mutant) the 10 s timer resolves the promise and leaves the socket alone
ConnectTimeout_NoTerminate ==
  /\ UNCHANGED <<tradeVars, exitVars>>
  /\ \/ /\ attemptTimer
        /\ attemptTimer' = FALSE
        /\ UNCHANGED staleTimers
     \/ /\ staleTimers > 0
        /\ staleTimers' = staleTimers - 1
        /\ UNCHANGED attemptTimer
  /\ initPc' = IF isConnected \/ socket = "null" THEN initPc
               ELSE ResolveConnect(initPc)
  /\ engineCalls' = 0
  /\ due' = FALSE
  /\ UNCHANGED <<winVars, connVars, reconnectTimers, fetching, stopped>>

\* the 10 s timer of a connection attempt fires. It reads this.isConnected
\* and this.socket as they are now; with this.socket null (after stop()) the
\* callback throws before it resolves anything, and the instance is let go
\* on as under a host that survives the exception.
ConnectTimeout ==
  /\ UNCHANGED <<tradeVars, exitVars>>
  /\ \/ /\ attemptTimer
        /\ attemptTimer' = FALSE
        /\ UNCHANGED staleTimers
     \/ /\ staleTimers > 0
        /\ staleTimers' = staleTimers - 1
        /\ UNCHANGED attemptTimer
  /\ IF isConnected \/ socket = "null"
       THEN UNCHANGED <<socket, initPc>>
       ELSE /\ socket' = IF Live(socket) THEN "closing" ELSE socket
            /\ initPc' = ResolveConnect(initPc)
  /\ engineCalls' = 0
  /\ due' = FALSE
  /\ UNCHANGED <<winVars, orphans, isConnected, reconnectAttempts,
                 reconnectDelay, attemptsSinceOpen, reconnectTimers, fetching,
                 stopped>>

\* ------------------------------------------------------------------ reconnect
\* (mutant) the callback of the backoff timer re-opens the stream at once and
\* fetches the snapshot afterwards
ReconnectTimerFire_ConnectsFirst ==
  /\ UNCHANGED <<tradeVars, exitVars>>
  /\ reconnectTimers # <<>>
  /\ reconnectTimers' = Tail(reconnectTimers)
  /\ fetching' = fetching + 1
  /\ connectWebSocket
  /\ engineCalls' = 0
  /\ due' = FALSE
  /\ UNCHANGED <<winVars, isConnected, reconnectAttempts, reconnectDelay,
                 attemptsSinceOpen, initPc, stopped>>

\* the backoff timer fires: the callback starts the snapshot fetch
ReconnectTimerFire ==
  /\ UNCHANGED <<tradeVars, exitVars>>
  /\ reconnectTimers # <<>>
  /\ reconnectTimers' = Tail(reconnectTimers)
  /\ fetching' = fetching + 1
  /\ engineCalls' = 0
  /\ due' = FALSE
  /\ UNCHANGED <<winVars, connVars, attemptTimer, staleTimers, initPc, stopped>>

\* the fetch throws: the callback logs "Reconnection failed" and ends
ReconnectFetchFail ==
  /\ UNCHANGED <<tradeVars, exitVars>>
  /\ fetching > 0
  /\ fetching' = fetching - 1
  /\ engineCalls' = 0
  /\ due' = FALSE
  /\ UNCHANGED <<winVars, connVars, reconnectTimers, attemptTimer, staleTimers,
                 initPc, stopped>>

\* the fetch returns: the window is replaced and the stream is re-opened
ReconnectFetchOk ==
  /\ UNCHANGED <<tradeVars, exitVars>>
  /\ fetching > 0
  /\ fetching' = fetching - 1
  /\ \E snap \in Snapshots : candles' = snap
  /\ connectWebSocket
  /\ engineCalls' = 0
  /\ due' = FALSE
  /\ UNCHANGED <<lastCandleTime, state, accepted, isConnected,
                 reconnectAttempts, reconnectDelay, attemptsSinceOpen,
                 reconnectTimers, initPc, stopped>>

\* ------------------------------------------------------------ handleMessage
\* processCandle: jAlgo is called on the updated window; its state replaces
\* this.state unless the call throws
processCandle(res) ==
  /\ engineCalls' = 1
  /\ state' = IF res.ok THEN res.state ELSE state

\* a closed tick that is newer than the last candle of the window
Newer(w, msg) == msg.kind = "kline" /\ msg.x /\ w # <<>> /\ msg.t > Last(w)

handleMessage(msg) ==
  /\ due' = Newer(candles, msg)
  /\ IF ~HasPayload(msg) \/ lastCandleTime = msg.t
       THEN /\ engineCalls' = 0
            /\ UNCHANGED <<candles, lastCandleTime, state, accepted>>
       ELSE /\ lastCandleTime' = msg.t
            /\ IF msg.x
                 THEN /\ candles' = AppendCandle(candles, msg.t)
                      /\ accepted' = accepted \cup {msg.t}
                      /\ \E res \in EngineResults : processCandle(res)
                 ELSE /\ engineCalls' = 0
                      /\ UNCHANGED <<candles, state, accepted>>

\* the 'message' event of the open socket, handled by handleMessage
Deliver(msg) ==
  /\ socket = "open"
  /\ handleMessage(msg)
  /\ UNCHANGED <<connVars, timerVars, initPc, stopped>>

\* In Spec the detections processCandle goes on with are left to TradeSpec.
HandleMessage ==
  /\ \E msg \in Messages : Deliver(msg)
  /\ UNCHANGED <<tradeVars, exitVars>>

\* ---------------------------------------------------------------------- stop
Stop ==
  /\ UNCHANGED <<tradeVars, exitVars>>
  /\ orphans' = orphans + (IF Live(socket) THEN 1 ELSE 0)
  /\ socket' = "null"
  /\ isConnected' = FALSE
  /\ staleTimers' = staleTimers + (IF attemptTimer THEN 1 ELSE 0)
  /\ attemptTimer' = FALSE
  /\ stopped' = (stopped \/ initPc \notin {"new", "fetch"})
  /\ engineCalls' = 0
  /\ due' = FALSE
  /\ UNCHANGED <<winVars, reconnectAttempts, reconnectDelay, attemptsSinceOpen,
                 reconnectTimers, fetching, initPc>>

\* ---------------------------------------------- processCandle, lines 515-712
\* The algorithm state with the fields the detections read. The source
\* compares the stop references of two successive states and copies them,
\* nothing else: a new state keeps the stop reference of the prior state or
\* has a new one, written as the openTime t of the candle that brought it.
TradeStates(prev, t) ==
  [isNull : {FALSE}, inLongTrade : BOOLEAN, inShortTrade : BOOLEAN,
   longStopReference : {prev.longStopReference, t},
   shortStopReference : {prev.shortStopReference, t}]

\* what jAlgo can make of the snapshot
InitialStates ==
  [isNull : {FALSE}, inLongTrade : BOOLEAN, inShortTrade : BOOLEAN,
   longStopReference : {0}, shortStopReference : {0}]

\* (mutant) the stop updates are detected before the entry
Detections_UpdatesFirst ==
  <<"exitLong", "exitShort", "updateLong", "updateShort", "entry", "heartbeat">>

\* the detections of processCandle, in the order of the source
Detections ==
  <<"exitLong", "exitShort", "entry", "updateLong", "updateShort", "heartbeat">>

\* the place of a detection in that order
Place(name) == CHOOSE k \in 1..Len(Detections) : Detections[k] = name

\* the awaits of processCandle, by the event that was handed to the sink
ExitAwaits ==
  {"exitLong.signal", "exitLong.stats", "exitShort.signal", "exitShort.stats"}

EntryAwaits == {"entryLong", "entryShort"}

UpdateAwaits == {"updateLong", "updateShort"}

\* the locals of a run (prevState, result.signal) a detection reads
Reads(name) ==
  CASE name = "exitLong" -> {"inLongTrade"}
    [] name = "exitShort" -> {"inShortTrade"}
    [] name = "entry" -> {"signal"}
    [] name = "updateLong" -> {"longStopReference"}
    [] name = "updateShort" -> {"shortStopReference"}
    [] OTHER -> {}

\* A run that stands at an await of the k-th detection keeps of its locals
\* what the detections after it read; what no line of the source reads any
\* more is blanked, and so is the flag of result.state once the short exit is
\* decided or cannot be due.
Locals(task, k) ==
  LET live == UNION {Reads(Detections[j]) : j \in (k + 1)..Len(Detections)}
      p == task.prevState
  IN  [task EXCEPT
         !.prevState =
           [isNull |-> FALSE,
            inLongTrade |-> "inLongTrade" \in live /\ p.inLongTrade,
            inShortTrade |-> "inShortTrade" \in live /\ p.inShortTrade,
            longStopReference |->
              IF "longStopReference" \in live THEN p.longStopReference ELSE 0,
            shortStopReference |->
              IF "shortStopReference" \in live THEN p.shortStopReference ELSE 0],
         !.signal = IF "signal" \in live THEN @ ELSE "none",
         !.result = [inShortTrade |->
                       /\ "inShortTrade" \in live
                       /\ p.inShortTrade
                       /\ task.result.inShortTrade]]

\* (mutant) the stop reference is compared, the slot is not looked at
StopMoved_AnySlot(trade, previousStop, newStop) == previousStop # newStop

\* the test of a stop update: the side has an ActiveTrade and the stop
\* reference of the new state differs from that of the prior state
StopMoved(trade, previousStop, newStop) ==
  trade # NoTrade /\ previousStop # newStop

\* a run of processCandle, in the detection `name`, hands an event to the
\* sink and awaits the request at `pc`
Await(cx, name, pc, event) ==
  [cx EXCEPT !.task = [Locals(cx.task, Place(name)) EXCEPT !.pc = pc],
             !.events = Append(@, event)]

\* One detection, from its test to its first await. cx holds the run (its
\* locals and where it stands) and the fields of the trader it writes; st is
\* this.state as it is now. A detection that does not fire leaves cx as it
\* is: the run goes on with the next one.
Detect(name, cx, st, elapsed) ==
  LET prev == cx.task.prevState
      signal == cx.task.signal
  IN  CASE name = "exitLong" ->
             IF prev.inLongTrade /\ ~st.inLongTrade
               THEN Await(cx, name, "exitLong.signal", <<"exit", "long">>)
               ELSE cx
        [] name = "exitShort" ->
             IF prev.inShortTrade /\ ~st.inShortTrade
               THEN Await(cx, name, "exitShort.signal", <<"exit", "short">>)
               ELSE cx
        [] name = "entry" ->
             IF signal = "long"
               THEN Await([cx EXCEPT
                             !.long = [id |-> cx.counter + 1,
                                       entryTime |-> cx.task.candle,
                                       stopLevel |-> st.longStopReference],
                             !.counter = cx.counter + 1],
                          name, "entryLong", <<"entry", "long">>)
               ELSE IF signal = "short"
                      THEN Await([cx EXCEPT
                                    !.short = [id |-> cx.counter + 1,
                                               entryTime |-> cx.task.candle,
                                               stopLevel |-> st.shortStopReference],
                                    !.counter = cx.counter + 1],
                                 name, "entryShort", <<"entry", "short">>)
                      ELSE cx
        [] name = "updateLong" ->
             IF StopMoved(cx.long, prev.longStopReference, st.longStopReference)
               THEN Await(cx, name, "updateLong", <<"update", "long">>)
               ELSE cx
        [] name = "updateShort" ->
             IF StopMoved(cx.short, prev.shortStopReference, st.shortStopReference)
               THEN Await(cx, name, "updateShort", <<"update", "short">>)
               ELSE cx
        [] OTHER ->
             IF cx.stats = 0 \/ elapsed
               THEN Await(cx, name, "heartbeat", <<"stats", "heartbeat">>)
               ELSE cx

\* the run goes through the detections from the k-th on until one of them
\* awaits, or to its end
RECURSIVE Run(_, _, _, _)
Run(k, cx, st, elapsed) ==
  IF k > Len(Detections)
    THEN [cx EXCEPT !.task.pc = "done"]
    ELSE LET after == Detect(Detections[k], cx, st, elapsed)
         IN  IF after.task.pc # "run" THEN after ELSE Run(k + 1, after, st, elapsed)

\* the run goes on after the detection `name`
RunAfter(name, cx, st, elapsed) == Run(Place(name) + 1, cx, st, elapsed)

\* the awaited request has returned: the run takes up after its await. A
\* stop update whose slot was emptied meanwhile throws at line 683 or 700,
\* which ends the run in the catch of line 713.
Resume(cx, st, elapsed) ==
  LET pc == cx.task.pc
      go == [cx EXCEPT !.task.pc = "run"]
  IN  CASE pc = "exitLong.signal" ->
             Await(go, "exitLong", "exitLong.stats", <<"stats", "long">>)
        [] pc = "exitLong.stats" ->
             RunAfter("exitLong", [go EXCEPT !.long = NoTrade], st, elapsed)
        [] pc = "exitShort.signal" ->
             Await(go, "exitShort", "exitShort.stats", <<"stats", "short">>)
        [] pc = "exitShort.stats" ->
             RunAfter("exitShort", [go EXCEPT !.short = NoTrade], st, elapsed)
        [] pc \in EntryAwaits -> RunAfter("entry", go, st, elapsed)
        [] pc = "updateLong" ->
             IF cx.long = NoTrade
               THEN [go EXCEPT !.task.pc = "done"]
               ELSE RunAfter("updateLong",
                             [go EXCEPT !.long.stopLevel = st.longStopReference],
                             st, elapsed)
        [] pc = "updateShort" ->
             IF cx.short = NoTrade
               THEN [go EXCEPT !.task.pc = "done"]
               ELSE RunAfter("updateShort",
                             [go EXCEPT !.short.stopLevel = st.shortStopReference],
                             st, elapsed)
        [] OTHER -> [go EXCEPT !.stats = 1, !.task.pc = "done"]

\* whether 24 hours have gone by since lastStatsUpdate (line 708); since
\* the initial 0 they have
Elapsed == IF lastStatsUpdate = 0 THEN {TRUE} ELSE BOOLEAN

\* the fields of the trader a run of processCandle writes, with the run and
\* the events it hands to the sink in this step
Context(task) ==
  [task |-> task, long |-> activeLongTrade, short |-> activeShortTrade,
   counter |-> tradeIdCounter, stats |-> lastStatsUpdate, events |-> <<>>]

Without(seq, i) == [j \in 1..(Len(seq) - 1) |-> IF j < i THEN seq[j] ELSE seq[j + 1]]

\* The events of the run of candle `of`, kept from its start for as long as
\* it stands at an await with no other run beside it.
Logged(cx, i) ==
  IF cx.task.pc = "done" \/ Len(tasks) > 1 THEN NoLog
  ELSE IF tasks = <<>> THEN [of |-> cx.task.candle, events |-> cx.events]
  ELSE IF i = 1 /\ sunk.of = cx.task.candle
         THEN [sunk EXCEPT !.events = @ \o cx.events]
         ELSE NoLog

\* the run, the i-th of those at an await or a new one, has written its
\* fields; a run that reached its end is dropped
Settle(cx, i) ==
  /\ sunk' = Logged(cx, i)
  /\ activeLongTrade' = cx.long
  /\ activeShortTrade' = cx.short
  /\ tradeIdCounter' = cx.counter
  /\ lastStatsUpdate' = cx.stats
  /\ tasks' = IF cx.task.pc = "done"
                THEN (IF i > Len(tasks) THEN tasks ELSE Without(tasks, i))
                ELSE (IF i > Len(tasks) THEN Append(tasks, cx.task)
                                        ELSE [tasks EXCEPT ![i] = cx.task])

\* a new run of processCandle on candle t, after line 507: its locals
\* prevState and result (result.signal, and of result.state the flag the
\* short exit is due by; the source reads this.state there)
NewRun(t, prev, st, signal) ==
  [candle |-> t, prevState |-> prev, signal |-> signal,
   result |-> [inShortTrade |-> st.inShortTrade], pc |-> "run"]

\* jAlgo returns: this.state is replaced and the run goes through the
\* detections to its first await
Evaluated(t, st, signal, elapsed) ==
  /\ threw' = FALSE
  /\ state' = st
  /\ Settle(Run(1, Context(NewRun(t, state, st, signal)), st, elapsed),
            Len(tasks) + 1)

\* (mutant) this.state is replaced although jAlgo threw
EvaluationFailed_StateLost ==
  /\ threw' = TRUE
  /\ state' = [state EXCEPT !.inLongTrade = FALSE, !.inShortTrade = FALSE]
  /\ UNCHANGED <<activeLongTrade, activeShortTrade, tradeIdCounter,
                 lastStatsUpdate, tasks, sunk>>

\* jAlgo throws: processCandle logs it in its catch (line 713)
EvaluationFailed ==
  /\ threw' = TRUE
  /\ UNCHANGED <<state, activeLongTrade, activeShortTrade, tradeIdCounter,
                 lastStatsUpdate, tasks, sunk>>

\* handleMessage is given the closed tick of the next candle: it pushes it
\* and calls processCandle, which calls jAlgo
CandleClose ==
  /\ socket = "open"
  /\ lastCandleTime < MaxCandles
  /\ LET t == lastCandleTime + 1
     IN  /\ lastCandleTime' = t
         /\ due' = Newer(candles, [kind |-> "kline", t |-> t, x |-> TRUE])
         /\ candles' = AppendCandle(candles, t)
         /\ accepted' = accepted \cup {t}
         /\ engineCalls' = 1
         /\ \/ EvaluationFailed
            \/ \E st \in TradeStates(state, t), signal \in Signals,
                  elapsed \in Elapsed :
                 Evaluated(t, st, signal, elapsed)
  /\ UNCHANGED <<connVars, timerVars, initPc, stopped, exitVars>>

\* the request a run awaits returns, answered or failed (sendSignal and
\* sendStatsPanel catch the failure, lines 170 and 255): the run goes on.
\* No handler was called: the history of the last handler run stays.
DeliveryReturns ==
  /\ \E i \in 1..Len(tasks), elapsed \in Elapsed :
       Settle(Resume(Context(tasks[i]), state, elapsed), i)
  /\ UNCHANGED <<engineCalls, due, threw>>
  /\ UNCHANGED <<winVars, connVars, timerVars, initPc, stopped, exitVars>>

\* ------------------------------------------------- exit resolution, applied
\* every variable of the trader
traderVars ==
  <<winVars, connVars, timerVars, initPc, engineCalls, due, stopped, tradeVars>>

\* processCandle resolves the exit of a long position (a behaviour of
\* ExitSpec resolves one exit)
ExitLong ==
  /\ quote = NoQuote
  /\ \E q \in LongQuotes :
       /\ quote' = q
       /\ exitEvent' = LongExit(q)
  /\ UNCHANGED traderVars

\* processCandle resolves the exit of a short position
ExitShort ==
  /\ quote = NoQuote
  /\ \E q \in ShortQuotes :
       /\ quote' = q
       /\ exitEvent' = ShortExit(q)
  /\ UNCHANGED traderVars

\* ---------------------------------------------------------------------- Next
Next ==
  \/ Initialize
  \/ InitFetchFail
  \/ InitFetchOk
  \/ InitStatsDone
  \/ SocketOpen
  \/ SocketError
  \/ SocketClose
  \/ ConnectTimeout
  \/ ReconnectTimerFire
  \/ ReconnectFetchFail
  \/ ReconnectFetchOk
  \/ HandleMessage
  \/ Stop

Spec == Init /\ [][Next]_vars

\* The connection manager and initialize(): every action but HandleMessage,
\* which reads of the connection only that the socket is open and writes
\* none of its variables.
NextConn ==
  \/ Initialize
  \/ InitFetchFail
  \/ InitFetchOk
  \/ InitStatsDone
  \/ SocketOpen
  \/ SocketError
  \/ SocketClose
  \/ ConnectTimeout
  \/ ReconnectTimerFire
  \/ ReconnectFetchFail
  \/ ReconnectFetchOk
  \/ Stop

ConnSpec == Init /\ [][NextConn]_vars

\* The trader once initialize() has returned true and the stream is open:
\* the window holds the `limit` candles before the first streamed one, the
\* algorithm state is what jAlgo made of the snapshot (a position may be
\* open in it) and no ActiveTrade exists.
TradeInit ==
  /\ candles = [i \in 1..limit |-> i - limit]
  /\ lastCandleTime = 0
  /\ state \in InitialStates
  /\ socket = "open"
  /\ orphans = 0
  /\ isConnected = TRUE
  /\ reconnectAttempts = 0
  /\ reconnectDelay = initialReconnectDelay
  /\ reconnectTimers = <<>>
  /\ fetching = 0
  /\ attemptTimer = FALSE
  /\ staleTimers = 0
  /\ initPc = "true"
  /\ engineCalls = 0
  /\ accepted = {}
  /\ due = FALSE
  /\ stopped = FALSE
  /\ attemptsSinceOpen = 0
  /\ activeLongTrade = NoTrade
  /\ activeShortTrade = NoTrade
  /\ tradeIdCounter = 0
  /\ lastStatsUpdate = 0
  /\ tasks = <<>>
  /\ threw = FALSE
  /\ sunk = NoLog
  /\ quote = NoQuote
  /\ exitEvent = NoEvent

\* The trade tracking of processCandle on a stream that delivers every
\* candle once, in order, with the notification sink answering at any time,
\* with a failure, or never.
NextTrade ==
  \/ CandleClose
  \/ DeliveryReturns

TradeSpec == TradeInit /\ [][NextTrade]_vars

\* The exit resolution of processCandle alone, on every prior position,
\* candle, signal and leverage switch of the bounded sets.
NextExit ==
  \/ ExitLong
  \/ ExitShort

ExitSpec == Init /\ [][NextExit]_vars

\* =================================================================== claims
Kline(t, x) == [kind |-> "kline", t |-> t, x |-> x]

\* a tick made jAlgo run in the last handler run (initialize() calls jAlgo
\* before any message, with lastCandleTime still 0)
TickEvaluated == engineCalls = 1 /\ lastCandleTime # 0

\* nothing of the connection manager is pending
Quiet ==
  /\ reconnectTimers = <<>>
  /\ fetching = 0
  /\ ~Live(socket)
  /\ orphans = 0

\* Terminated: the attempt budget is used up and nothing is pending
Terminated == reconnectAttempts = maxReconnectAttempts /\ ~isConnected /\ Quiet

\* C1: every closed tick whose openTime is newer than the last candle of the
\* window is appended to the window and evaluated by the engine exactly
\* once, whatever non-closed ticks came before it; and the engine is
\* evaluated for no tick that was not appended.
C1_ClosedCandleProcessedOnce ==
  /\ due => (engineCalls = 1 /\ candles # <<>> /\ Last(candles) = lastCandleTime)
  /\ TickEvaluated => (candles = <<>> \/ Last(candles) = lastCandleTime)

\* C2: handling a tick whose closed flag is false changes neither the
\* window, nor the algorithm state, nor the marker that decides whether a
\* later tick is accepted.
C2_NonClosedTickIgnored ==
  [][(\E t \in OpenTimes : Deliver(Kline(t, FALSE)))
       => UNCHANGED <<candles, state, lastCandleTime>>]_vars

\* C3: in every reachable state the window is strictly increasing by
\* openTime, so it holds no openTime twice.
C3_WindowStrictlyIncreasing == StrictlyIncreasing(candles)

\* C4: an accepted candle is appended, and the oldest candle is evicted only
\* when the window already holds `limit` candles: a shorter window grows.
\* (Stated of a newer candle and a window that holds one; an empty window
\* fares the same.)
C4_EvictsOnlyAtCapacity ==
  [][\A t \in OpenTimes :
       (Deliver(Kline(t, TRUE)) /\ lastCandleTime # t /\ Newer(candles, Kline(t, TRUE)))
         => candles' = IF Len(candles) < limit
                         THEN Append(candles, t)
                         ELSE Tail(Append(candles, t))]_vars

\* C5: in every reachable state the window holds at most `limit` candles.
C5_WindowBounded == Len(candles) <= limit

\* C5 witness: a closed tick was just appended to a window that is full.
C5_Witness ==
  /\ TickEvaluated
  /\ Len(candles) = limit
  /\ Last(candles) = lastCandleTime
  /\ lastCandleTime \in accepted

\* C6: a closed tick whose openTime was appended before, and is still in the
\* window, leaves the window as it is and makes no engine evaluation.
C6_ReappendIsNoOp ==
  [][\A t \in accepted :
       ((\E i \in 1..Len(candles) : candles[i] = t) /\ Deliver(Kline(t, TRUE)))
         => (candles' = candles /\ engineCalls' = 0)]_vars

\* C7: once stop() has been called, no reconnect timer is pending, no
\* snapshot fetch is under way and there is no socket, for ever.
C7_StopTerminates ==
  stopped => (socket = "null" /\ reconnectTimers = <<>> /\ fetching = 0)

\* C8: no more than maxReconnectAttempts reconnects are ever scheduled in a
\* row; with the budget used up a close event schedules nothing and leaves
\* the manager Terminated; and Terminated is never left: no timer, no
\* fetch, no socket comes after it.
C8_TerminatedAbsorbing ==
  [][/\ attemptsSinceOpen' <= maxReconnectAttempts
     /\ (reconnectAttempts = maxReconnectAttempts /\ SocketClose)
          => (Terminated' /\ reconnectAttempts' = reconnectAttempts)
     /\ Terminated => Terminated']_vars

\* C8 witness: the budget of ten attempts is used up and the manager is
\* Terminated.
C8_Witness == Terminated /\ attemptsSinceOpen = maxReconnectAttempts

\* the delays of section 8 of the specification, for attempts 1..10
ExpectedDelays ==
  <<1000, 2000, 4000, 8000, 16000, 30000, 30000, 30000, 30000, 30000>>

\* C9: the timer of the k-th reconnect in a row waits ExpectedDelays[k], and
\* while connected the attempt counter is 0 and the base delay 1000.
C9_BackoffSequence ==
  /\ \A i \in 1..Len(reconnectTimers) :
       /\ attemptsSinceOpen \in 1..Len(ExpectedDelays)
       /\ reconnectTimers[i] = ExpectedDelays[attemptsSinceOpen]
  /\ isConnected => (reconnectAttempts = 0 /\ reconnectDelay = 1000)

\* C9 witness: the tenth attempt in a row is waiting, for 30000 ms.
C9_Witness == reconnectTimers = <<30000>> /\ attemptsSinceOpen = 10

\* C10: once the connection has been started, a manager that is neither
\* connected nor Terminated (nor stopped) has its recovery pending: a backoff
\* timer, a snapshot fetch, or a socket whose open or close event is still
\* to come. In a state without any of them no handler of the manager will
\* run again, so the manager stays there for ever.
C10_RecoversOrTerminates ==
  (initPc \in {"connect", "stats", "true"} /\ ~isConnected /\ ~stopped)
    => (Terminated \/ ~Quiet)

\* the terms of the exit claims, read off the inputs of the last resolution
TargetReached ==
  IF quote.position = "long" THEN quote.high >= quote.targetLevel
                             ELSE quote.low <= quote.targetLevel

Opposite(position) == IF position = "long" THEN "short" ELSE "long"

OpposingSignal == quote.signal = Opposite(quote.position)

\* the reasons the source gives an exit on an opposing signal
OpposingReasons == {"New Signal (Short)", "New Signal (Long)"}

LeveragedRisk == quote.riskAmount * (IF quote.useLeverage THEN leverageAmount ELSE 1)

\* riskAmount * rewardMultiple * leverage factor
TargetPayoff == <<LeveragedRisk * rewardMultiple[1], rewardMultiple[2]>>

TowardTarget ==
  IF quote.position = "long" THEN quote.close > quote.entryPrice
                             ELSE quote.close < quote.entryPrice

\* min(|a| / |b|, 1)
CappedFraction(a, b) == RatMin(<<Abs(a), Abs(b)>>, <<1, 1>>)

PartialPayoff ==
  IF TowardTarget
    THEN RatMul(CappedFraction(quote.close - quote.entryPrice,
                               quote.targetLevel - quote.entryPrice),
                TargetPayoff)
    ELSE RatNeg(RatMul(CappedFraction(quote.close - quote.entryPrice,
                                      quote.stopReference - quote.entryPrice),
                       <<LeveragedRisk, 1>>))

\* C11: the reason and payoff of an exit follow the priority order: target
\* reached gives Target Hit with riskAmount * rewardMultiple * leverage
\* factor, with or without an opposing signal; otherwise an opposing signal
\* gives the opposing-signal reason; otherwise Unknown with payoff 0.
C11_ExitPriority ==
  exitEvent # NoEvent =>
    /\ exitEvent.position = quote.position
    /\ TargetReached =>
         (exitEvent.reason = "Target Hit" /\ RatEq(exitEvent.profitLoss, TargetPayoff))
    /\ (~TargetReached /\ OpposingSignal) => exitEvent.reason \in OpposingReasons
    /\ (~TargetReached /\ ~OpposingSignal) =>
         (exitEvent.reason = "Unknown" /\ RatEq(exitEvent.profitLoss, <<0, 1>>))

\* C11 witness: the target is reached on a candle that also brings an
\* opposing signal; risk 10 at 1.5 without leverage pays 15.
C11_Witness ==
  /\ exitEvent.reason = "Target Hit"
  /\ OpposingSignal
  /\ quote.riskAmount = 10 /\ ~quote.useLeverage
  /\ RatEq(exitEvent.profitLoss, <<15, 1>>)

Stands(runs, candle, pc) ==
  \E i \in 1..Len(runs) : runs[i].candle = candle /\ runs[i].pc = pc

\* in this step a run hands the event awaited at `pc` to the sink: it comes
\* to stand at that await
Emits(pc) ==
  \E i \in 1..Len(tasks') :
    tasks'[i].pc = pc /\ ~Stands(tasks, tasks'[i].candle, pc)

\* the lone run of the last candle stands at the await `pc`
LoneRunAt(pc) ==
  /\ Len(tasks) = 1
  /\ tasks[1].candle = lastCandleTime
  /\ tasks[1].pc = pc
  /\ sunk.of = lastCandleTime

\* the lone run has handed the event to the sink
Sunk(event) == \E k \in 1..Len(sunk.events) : sunk.events[k] = event

\* C13: a StopUpdate is handed to the sink only for a side whose ActiveTrade
\* slot is set when the stop-update detection runs; the detection and the
\* emission are one step, and the step leaves the slot as the detection
\* found it.
C13_NoStopUpdateWithoutTrade ==
  [][/\ Emits("updateLong") => activeLongTrade' # NoTrade
     /\ Emits("updateShort") => activeShortTrade' # NoTrade]_vars

\* C13 witness: the first candle moved the long stop reference of a position
\* inherited from the snapshot, which has no ActiveTrade; the run is past
\* the stop-update detections and has emitted no StopUpdate.
C13_Witness ==
  /\ lastCandleTime = 1
  /\ LoneRunAt("heartbeat")
  /\ state.inLongTrade
  /\ state.longStopReference = 1
  /\ tradeIdCounter = 0
  /\ activeLongTrade = NoTrade
  /\ ~Sunk(<<"update", "long">>)

\* the order the claim gives the events of one candle: exits (with their
\* stats panel), entries, stop updates, and last the heartbeat panel
EventRank(event) ==
  CASE event[1] = "exit" -> 1
    [] event = <<"stats", "long">> \/ event = <<"stats", "short">> -> 1
    [] event[1] = "entry" -> 2
    [] event[1] = "update" -> 3
    [] OTHER -> 4

\* the same for the await a run stands at once it has handed the event over
AwaitRank(pc) ==
  IF pc \in ExitAwaits THEN 1
  ELSE IF pc \in EntryAwaits THEN 2
  ELSE IF pc \in UpdateAwaits THEN 3
  ELSE 4

\* C14: the events a run of processCandle hands to the sink come in the
\* order exits, entries, stop updates. The log of a lone run is in that
\* order, and no run, lone or not, goes from the await of an Entry to that
\* of an Exit, or from the await of a StopUpdate to that of an Exit or Entry.
C14_ExitsEntriesUpdates ==
  /\ [](\A j \in 1..Len(sunk.events) : \A i \in 1..j :
          EventRank(sunk.events[i]) <= EventRank(sunk.events[j]))
  /\ [][\A i \in 1..Len(tasks) : \A j \in 1..Len(tasks') :
          tasks[i].candle = tasks'[j].candle
            => AwaitRank(tasks[i].pc) <= AwaitRank(tasks'[j].pc)]_vars

\* C14 witness: all three detections fired for one candle; the run stands at
\* the await of its StopUpdate with an Exit and an Entry before it.
C14_Witness ==
  /\ \E pc \in UpdateAwaits : LoneRunAt(pc)
  /\ \E side \in {"long", "short"} : Sunk(<<"exit", side>>)
  /\ \E side \in {"long", "short"} : Sunk(<<"entry", side>>)
  /\ \E side \in {"long", "short"} : Sunk(<<"update", side>>)

\* the algorithm state has the side in a trade
InTrade(st, side) == IF side = "long" THEN st.inLongTrade ELSE st.inShortTrade

\* the await of the Entry of a side
EntryAwait(side) == IF side = "long" THEN "entryLong" ELSE "entryShort"

\* C15: on a candle that finds a side in a trade and leaves it in a trade
\* with a new signal for that side, the Entry is not the first event of the
\* run: the Exit of the old position goes before it.
C15_ReopenReportsExitFirst ==
  [][\A side \in {"long", "short"} :
       (/\ lastCandleTime' # lastCandleTime
        /\ InTrade(state, side)
        /\ InTrade(state', side))
         => ~Stands(tasks', lastCandleTime', EntryAwait(side))]_vars

\* C16: a candle on which jAlgo throws leaves the algorithm state, both
\* ActiveTrade slots and the trade-id counter as they were and no run of
\* processCandle comes to stand at an await for it (no event is emitted);
\* the next candle is evaluated against the retained state: when the new
\* state ends a position of the retained one, the Exit is emitted.
C16_EngineFailureSkipsCandle ==
  [][/\ (lastCandleTime' # lastCandleTime /\ threw')
          => /\ UNCHANGED <<state, activeLongTrade, activeShortTrade,
                            tradeIdCounter, tasks>>
             /\ candles' = AppendCandle(candles, lastCandleTime')
     /\ (threw /\ lastCandleTime' # lastCandleTime /\ ~threw'
         /\ state.inLongTrade /\ ~state'.inLongTrade)
          => Stands(tasks', lastCandleTime', "exitLong.signal")]_vars

\* C16 witness: jAlgo threw on the first candle, the second one ended the
\* long position of the retained state and its Exit is at the sink.
C16_Witness ==
  /\ lastCandleTime = 2
  /\ ~threw
  /\ Len(candles) = limit /\ candles[limit] = 2 /\ candles[limit - 1] = 1
  /\ tradeIdCounter = 0
  /\ LoneRunAt("exitLong.signal")
  /\ sunk.events = <<(<<"exit", "long">>)>>
  /\ ~state.inLongTrade

\* the parts of the connection manager and of initialize() that a started
\* instance sets going
NothingStarted ==
  /\ socket = "null"
  /\ orphans = 0
  /\ ~isConnected
  /\ reconnectAttempts = 0
  /\ reconnectTimers = <<>>
  /\ fetching = 0
  /\ ~attemptTimer
  /\ staleTimers = 0

\* C17: initialize() returns false only from its fetch or its first engine
\* evaluation, before the connection and the stats panel, and once it has
\* returned false no socket exists, no timer is pending and no fetch is
\* under way, for ever.
C17_FailedInitStartsNothing ==
  [][initPc' = "false" => (initPc \in {"fetch", "false"} /\ NothingStarted')]_vars

\* C17 witness: the first engine evaluation threw and initialize() returned
\* false.
C17_Witness == initPc = "false" /\ engineCalls = 1 /\ candles # <<>>

\* the messages that are no well-formed kline event
MalformedMessages == {msg \in Messages : msg.kind # "kline"}

\* C18: a message that does not parse, has no candle payload, or has a
\* candle payload of an unexpected schema leaves the window, the duplicate
\* marker, the algorithm state and the ActiveTrade slots as they were.
C18_MalformedMessageDropped ==
  [][\A msg \in MalformedMessages :
       Deliver(msg) =>
         UNCHANGED <<candles, lastCandleTime, state, activeLongTrade,
                     activeShortTrade>>]_vars

\* the awaits after which a run of processCandle still has detections to
\* run or a slot to write
WorkLeftAfter == ExitAwaits \cup EntryAwaits \cup UpdateAwaits

\* C19: delivery is fire-and-forget: no run of processCandle stands waiting
\* for a delivery while it has an ActiveTrade to clear, a detection to run
\* or a stopLevel to refresh.
C19_DeliveryNeverBlocks ==
  \A i \in 1..Len(tasks) : tasks[i].pc \notin WorkLeftAfter

\* C20: the pipeline of a candle has run to its end before the next closed
\* candle is handled: at most one run of processCandle is in progress.
C20_OnePipelineAtATime == Len(tasks) <= 1

\* the 10 s timers that are pending
PendingTimers == staleTimers + (IF attemptTimer THEN 1 ELSE 0)

\* in this step the callback of a 10 s timer runs
TimerFires == PendingTimers' < PendingTimers

\* in this step connectWebSocket makes a socket (and arms its timer)
SocketMade == PendingTimers' > PendingTimers

\* C21: no callback that runs after stop() raises an exception. stop() tests
\* this.socket before it uses it, the reconnect callback and handleMessage
\* catch; the callback of the 10 s timer calls this.socket.terminate()
\* whenever this.isConnected is false, so it must not find this.socket null.
C21_StopNeverThrows ==
  [][TimerFires => (isConnected \/ socket # "null")]_vars

\* C23: outside initialize(), a socket is made only in the step in which a
\* snapshot fetch of a reconnect callback has returned and the window was
\* replaced by what it returned; a fetch that fails, and a callback whose
\* fetch has not returned, make no socket.
C23_ReseedBeforeReopen ==
  [][(SocketMade /\ initPc # "fetch")
       => (fetching' = fetching - 1 /\ candles' \in Snapshots)]_vars

\* C23 witness: after a disconnect the backoff timer has fired, the snapshot
\* was fetched, and the stream is being re-opened.
C23_Witness ==
  /\ initPc = "true"
  /\ reconnectAttempts = 1
  /\ reconnectTimers = <<>>
  /\ fetching = 0
  /\ socket = "connecting"
  /\ candles # <<>>

\* in this step the 10 s timer of the attempt that made this.socket fires
OwnTimerFires == attemptTimer /\ ~attemptTimer' /\ TimerFires

\* C24: when the 10 s timer of an attempt fires and its socket has not
\* opened, the socket is terminated, so that its close event, which calls
\* attemptReconnect, follows; when the socket is open the timer leaves it
\* alone.
C24_TimeoutFailsAttempt ==
  [][OwnTimerFires =>
       /\ socket = "connecting" => socket' = "closing"
       /\ socket = "open" => socket' = "open"]_vars

\* C24 witness: the socket of the first reconnect attempt never opened
\* (the attempt counter was not reset) and its 10 s timer has fired: the
\* socket is terminated and its close event is to come.
C24_Witness ==
  /\ socket = "closing"
  /\ ~attemptTimer /\ staleTimers = 0
  /\ reconnectAttempts = 1 /\ reconnectTimers = <<>> /\ fetching = 0
  /\ ~isConnected
  /\ ~stopped

\* in this step the 10 s timer of an earlier attempt fires, one whose socket
\* this.socket no longer refers to
StaleTimerFires == staleTimers' < staleTimers

\* C28: the 10 s timer of an earlier attempt leaves the socket of the
\* present attempt as it is.
C28_TimerActsOnOwnSocket ==
  [][(StaleTimerFires /\ ~stopped) => socket' = socket]_vars

\* C30: initialize() goes on from its connection attempt to the stats panel
\* and `return true` only when the attempt has reached Connected.
C30_TrueOnlyIfConnected ==
  [][(initPc = "connect" /\ initPc' = "stats") => isConnected']_vars

\* C22: a run that has sent the stats panel of an exit, moments ago while
\* handling the same candle, sends no heartbeat panel.
C22_HeartbeatOnlyAfterInterval ==
  \A side \in {"long", "short"} :
    ~(Sunk(<<"stats", side>>) /\ Sunk(<<"stats", "heartbeat">>))

\* C29: a run that has emitted the Entry of a side emits no StopUpdate for
\* that side.
C29_NoStopUpdateOnEntryCandle ==
  \A side \in {"long", "short"} :
    ~(Sunk(<<"entry", side>>) /\ Sunk(<<"update", side>>))

\* the candles whose run hands the event awaited at `pc` to the sink in this
\* step
Emitters(pc) ==
  {tasks'[i].candle : i \in {j \in 1..Len(tasks') :
      tasks'[j].pc = pc /\ ~Stands(tasks, tasks'[j].candle, pc)}}

\* C26: in the step in which the run of a candle emits its Entry, the trade-
\* id counter goes up by one, the slot of the side holds the new trade with
\* that counter value and with the stop reference of the new state of that
\* candle (a stop reference is written as the candle that brought it, so it
\* is none of a later candle), and the slot of the other side is left alone
\* or was emptied by the exit the run has just finished.
C26_EntryCreatesTrade ==
  [][/\ \A c \in Emitters("entryLong") :
          /\ tradeIdCounter' = tradeIdCounter + 1
          /\ activeLongTrade'.id = tradeIdCounter'
          /\ activeLongTrade'.stopLevel <= c
          /\ activeShortTrade' \in {activeShortTrade, NoTrade}
     /\ \A c \in Emitters("entryShort") :
          /\ tradeIdCounter' = tradeIdCounter + 1
          /\ activeShortTrade'.id = tradeIdCounter'
          /\ activeShortTrade'.stopLevel <= c
          /\ activeLongTrade' \in {activeLongTrade, NoTrade}]_vars

\* the candles whose run, in this step, comes back from the last await of
\* its exit at `pc` and empties the slot of the side
Clearers(pc) ==
  {tasks[i].candle : i \in {j \in 1..Len(tasks) :
      tasks[j].pc = pc /\ ~Stands(tasks', tasks[j].candle, pc)}}

\* C27: the exit handling of a candle discards no trade that was entered on
\* a later candle.
C27_ExitClearsOwnTrade ==
  [][/\ \A c \in Clearers("exitLong.stats") : activeLongTrade.entryTime <= c
     /\ \A c \in Clearers("exitShort.stats") : activeShortTrade.entryTime <= c]_vars

\* in this step jAlgo has evaluated a new candle
CandleEvaluated == lastCandleTime' # lastCandleTime /\ ~threw'

\* C25: the Exit of a side is emitted for a candle exactly if the prior state
\* has the side in a trade and the new state of that candle has not. The
\* long exit is decided in the step that evaluates the candle; the short
\* exit in that step too, or, when the run has a long exit to deliver first,
\* in the step in which it comes back from it. Coming back from the awaits
\* of an exit the run leaves the slot of the side empty, or holding the
\* trade it enters on the same candle.
C25_ExitOnStateDiff ==
  [][/\ CandleEvaluated =>
          LET t == lastCandleTime'
              closesLong == state.inLongTrade /\ ~state'.inLongTrade
              closesShort == state.inShortTrade /\ ~state'.inShortTrade
          IN  /\ Stands(tasks', t, "exitLong.signal") <=> closesLong
              /\ ~closesLong =>
                   (Stands(tasks', t, "exitShort.signal") <=> closesShort)
     /\ \A i \in 1..Len(tasks) :
          (/\ tasks[i].pc = "exitLong.stats"
           /\ ~Stands(tasks', tasks[i].candle, "exitLong.stats"))
            => /\ Stands(tasks', tasks[i].candle, "exitShort.signal")
                 <=> (/\ tasks[i].prevState.inShortTrade
                      /\ ~tasks[i].result.inShortTrade)
               /\ \/ activeLongTrade' = NoTrade
                  \/ activeLongTrade'.entryTime = tasks[i].candle
     /\ \A i \in 1..Len(tasks) :
          (/\ tasks[i].pc = "exitShort.stats"
           /\ ~Stands(tasks', tasks[i].candle, "exitShort.stats"))
            => \/ activeShortTrade' = NoTrade
               \/ activeShortTrade'.entryTime = tasks[i].candle]_vars

====
